---- MODULE Spec2Model ----
(***************************************************************************)
(* Model of work-journal (src/journal_script.py): the JournalDatabase      *)
(* entry store over its SQLite table, and the record_new_entry pipeline    *)
(* (record_audio -> is_silent -> temporary wav -> transcribe -> tags ->    *)
(* save_entry).                                                            *)
(*                                                                         *)
(* Strings are sequences of one-character strings, so that serialisation   *)
(* (json.dumps / json.loads) and tokenising are computed, not assumed.     *)
(* Timestamps are ISO-8601 strings in the program; only their order is     *)
(* used by the code (ORDER BY timestamp DESC), so they are modelled by     *)
(* small naturals with the same order.                                     *)
(***************************************************************************)
EXTENDS Integers, Sequences, FiniteSets, TLC

VARIABLES
    conn,        \* JournalDatabase.conn: "open" | "closed"
    entries,     \* the entries table: rowid -> [timestamp, text, tags]
    last,        \* the last store call and its outcome: [op, arg, raised, ret]
    before,      \* history: the table as the last store call found it
    everClosed,  \* history: close() has been called
    maxSaved,    \* history: the largest id any save_entry has returned
    prevMaxSaved,    \* history: maxSaved as the last store call found it
    removed,     \* history: ids whose row a remove_entry has deleted
    settings,    \* the global settings dict (the keys the pipeline reads)
    pc,          \* where the program is: "menu", inside record_new_entry, or "crashed"
    stop_recording,  \* the global flag signal_handler sets
    sigint,      \* the SIGINT disposition: "SIG_DFL" | "signal_handler"
    reads,       \* record_audio: the stream.read calls of the latest recording
    recorded_audio,  \* the chunks kept so far (<<>> outside record_new_entry)
    manual_tags, \* the tags line the user typed (<<>> outside record_new_entry)
    tempFiles,   \* the temporary wav files that exist on disk
    verdict,     \* this flow's is_silent outcome: "none" | "silent" | "speech" | "ValueError"
    asr,         \* this flow's transcribe_audio outcome: "none" | "ok" | the exception raised
    temp_filename,   \* record_new_entry: the name of its temporary file (0: none yet)
    report,      \* what this flow printed last: <<kind, detail>>
    entriesAtStart,  \* history: the table when this flow started
    cancel,      \* history: the recording as the first SIGINT of it found it
    checkedAudio, \* history: the buffer this flow's is_silent was given
    call,        \* history: the call of record_audio under way: the flag as the call found it, what stream.read returned
    flow,        \* history: the latest flow begun, and what the user typed in it
    config,      \* config['DEFAULT'], as the parser holds it (and the file, once written)
    transcription_tool, \* the global: the model its TranscriptionTool holds, or "unbound"
    resident,    \* the models loaded in memory, one element per instance
    new_model,   \* change_settings' local, while the new TranscriptionTool is built
    chg,         \* history: the latest change_settings call
    kw,          \* a text, a num_keywords and what the calls of extract_keywords on them returned
    dbfile,      \* the table as committed: what a reader on another connection gets
    tx,          \* the statement this connection has executed and not yet committed
    obs          \* what the latest step read through another connection, if it was a read

storeVars == <<conn, entries, last, before, everClosed>>
histVars == <<maxSaved, prevMaxSaved, removed>>
flowVars == <<settings, pc, stop_recording, sigint, reads, recorded_audio, manual_tags,
              tempFiles, temp_filename, verdict, asr, report, entriesAtStart,
              cancel, call, checkedAudio, flow>>
toolVars == <<config, transcription_tool, resident, new_model, chg>>
txVars == <<dbfile, tx, obs>>
restVars == <<toolVars, kw, txVars>>
vars == <<storeVars, histVars, flowVars, restVars>>

(***************************************************************************)
(* Bounds of the model.                                                    *)
(***************************************************************************)
MaxId == 2          \* save_entry is not taken once the next rowid would exceed it
MaxWords == 3       \* the words of a text extract_keywords is called on
NumReads == 2       \* int(samplerate * duration), the reads one recording asks for

Ids == 1..MaxId
Timestamps == {1, 2}

\* Entry bodies and tag lists the callers are drawn from.
Texts == { <<"O", "k">>, <<"a", " ", "b", "u", "g", " ", "b", "u", "g">> }
TagLists == { <<>>, << <<"a", "\"">>, <<"q", "a">> >> }

\* What the user types at "Additional tags (comma-separated): ".
ManualTagInputs == { <<>>, <<"b", "u", "g", ",", " ", "b", "u", "g">> }

\* Sample amplitudes, in units of 0.005 (the program's are floats in [-1, 1]),
\* and the default threshold of is_silent, 0.01, in the same units.
Samples == {1, -2}
Threshold == 2

\* The exceptions the model lets the transcription raise.
AsrErrors == {"RuntimeError"}

\* Search terms, and the search_type values the callers pass.
Terms == { <<"U", "G">>, <<"_", "a">> }
SearchTypes == {"text", "tag"}

\* limit argument of get_entries: <<>> is None (omitted), <<n>> is the number n.
Limits == { <<>>, <<0>>, <<1>> }
Offsets == {0, 1}

(***************************************************************************)
(* json.dumps / json.loads on a list of strings.                           *)
(***************************************************************************)
RECURSIVE EscapeStr(_)
EscapeStr(s) ==
    IF s = <<>> THEN <<>>
    ELSE IF Head(s) \in {"\"", "\\"}
         THEN <<"\\", Head(s)>> \o EscapeStr(Tail(s))
         ELSE <<Head(s)>> \o EscapeStr(Tail(s))

RECURSIVE DumpsItems(_)
DumpsItems(tags) ==
    IF tags = <<>> THEN <<>>
    ELSE <<"\"">> \o EscapeStr(Head(tags)) \o <<"\"">>
         \o (IF Tail(tags) = <<>> THEN <<>> ELSE <<",", " ">>)
         \o DumpsItems(Tail(tags))

Dumps(tags) == <<"[">> \o DumpsItems(tags) \o <<"]">>

\* The parser: i is the position, inStr whether a string literal is open,
\* cur the literal read so far, acc the list read so far.
RECURSIVE LoadsFrom(_, _, _, _, _)
LoadsFrom(s, i, inStr, cur, acc) ==
    IF i > Len(s) THEN acc
    ELSE IF inStr
         THEN IF s[i] = "\\"
              THEN LoadsFrom(s, i + 2, TRUE, Append(cur, s[i + 1]), acc)
              ELSE IF s[i] = "\""
                   THEN LoadsFrom(s, i + 1, FALSE, <<>>, Append(acc, cur))
                   ELSE LoadsFrom(s, i + 1, TRUE, Append(cur, s[i]), acc)
         ELSE IF s[i] = "\""
              THEN LoadsFrom(s, i + 1, TRUE, <<>>, acc)
              ELSE LoadsFrom(s, i + 1, FALSE, cur, acc)

Loads(s) == LoadsFrom(s, 1, FALSE, <<>>, <<>>)

(***************************************************************************)
(* The table and its queries.                                              *)
(***************************************************************************)
Max(S) == CHOOSE x \in S : \A y \in S : y <= x

\* id INTEGER PRIMARY KEY (no AUTOINCREMENT): an INSERT that gives no id gets
\* one more than the largest rowid in the table, 1 in an empty table.
NextRowid(tbl) == IF DOMAIN tbl = {} THEN 1 ELSE Max(DOMAIN tbl) + 1

InsertRow(tbl, ts, text, tags) ==
    [i \in DOMAIN tbl \cup {NextRowid(tbl)} |->
        IF i \in DOMAIN tbl THEN tbl[i]
        ELSE [timestamp |-> ts, text |-> text, tags |-> Dumps(tags)]]

\* An UPDATE whose WHERE clause is lost: every row is rewritten.
UpdateRowNoWhere(tbl, id, text, tags) ==
    [i \in DOMAIN tbl |->
        [timestamp |-> tbl[i].timestamp, text |-> text, tags |-> Dumps(tags)]]

UpdateRow(tbl, id, text, tags) ==
    [i \in DOMAIN tbl |->
        IF i = id
        THEN [timestamp |-> tbl[i].timestamp, text |-> text, tags |-> Dumps(tags)]
        ELSE tbl[i]]

DeleteRow(tbl, id) == [i \in DOMAIN tbl \ {id} |-> tbl[i]]

\* The dict get_entries and search_entries build from a row.
RowDict(tbl, id) ==
    [id |-> id, timestamp |-> tbl[id].timestamp, text |-> tbl[id].text,
     tags |-> Loads(tbl[id].tags)]

IsInjective(f) == \A i, j \in DOMAIN f : f[i] = f[j] => i = j

\* ORDER BY timestamp DESC: every order of the ids with timestamps
\* non-increasing (rows with equal timestamps come in an order SQL leaves open).
OrderByTimestampDesc(tbl, ids) ==
    { s \in [1..Cardinality(ids) -> ids] :
        /\ IsInjective(s)
        /\ \A i \in 1..(Len(s) - 1) : tbl[s[i]].timestamp >= tbl[s[i + 1]].timestamp }

\* LIMIT n OFFSET m: a negative LIMIT is no limit, a negative OFFSET is 0.
LimitOffset(s, limit, offset) ==
    LET off == IF offset < 0 THEN 0 ELSE offset
        hi  == IF limit < 0 THEN Len(s)
               ELSE IF off + limit > Len(s) THEN Len(s) ELSE off + limit
    IN  IF off >= Len(s) THEN <<>> ELSE SubSeq(s, off + 1, hi)

\* `if limit:` is false for None and for 0.
Truthy(limit) == limit # <<>> /\ limit[1] # 0

\* The id sequences get_entries(limit, offset) may return.
GetEntriesIds(tbl, limit, offset) ==
    IF Truthy(limit)
    THEN { LimitOffset(s, limit[1], offset) : s \in OrderByTimestampDesc(tbl, DOMAIN tbl) }
    ELSE OrderByTimestampDesc(tbl, DOMAIN tbl)

\* SQLite's LIKE: % matches any run of characters, _ any one character, and
\* letters match without regard to (ASCII) case; there is no escape character.
UpperCase == <<"A", "B", "C", "D", "E", "F", "G", "H", "I", "J", "K", "L", "M",
               "N", "O", "P", "Q", "R", "S", "T", "U", "V", "W", "X", "Y", "Z">>
LowerCase == <<"a", "b", "c", "d", "e", "f", "g", "h", "i", "j", "k", "l", "m",
               "n", "o", "p", "q", "r", "s", "t", "u", "v", "w", "x", "y", "z">>
ToLower(c) ==
    IF \E i \in 1..Len(UpperCase) : UpperCase[i] = c
    THEN LowerCase[CHOOSE i \in 1..Len(UpperCase) : UpperCase[i] = c]
    ELSE c

RECURSIVE Like(_, _)
Like(pat, str) ==
    IF pat = <<>> THEN str = <<>>
    ELSE IF Head(pat) = "%"
         THEN \E k \in 0..Len(str) : Like(Tail(pat), SubSeq(str, k + 1, Len(str)))
         ELSE /\ str # <<>>
              /\ Head(pat) = "_" \/ ToLower(Head(pat)) = ToLower(Head(str))
              /\ Like(Tail(pat), Tail(str))

\* WHERE text LIKE '%term%' (search_type 'text'), WHERE tags LIKE '%term%' (any other).
Matching(tbl, term, type) ==
    { i \in DOMAIN tbl :
        Like(<<"%">> \o term \o <<"%">>, IF type = "text" THEN tbl[i].text ELSE tbl[i].tags) }

Dicts(tbl, s) == [i \in 1..Len(s) |-> RowDict(tbl, s[i])]

\* self.conn.cursor() on a closed connection raises sqlite3.ProgrammingError
\* ("Cannot operate on a closed database").
Closed(opname, arg) ==
    /\ conn = "closed"
    /\ last' = [op |-> opname, arg |-> arg, raised |-> "ProgrammingError", ret |-> <<>>]
    /\ before' = entries
    /\ UNCHANGED <<conn, entries, everClosed>>

(***************************************************************************)
(* The operations of JournalDatabase.                                      *)
(***************************************************************************)
save_entry(text, tags, ts) ==
    \/ Closed("save", <<text, tags, ts>>)
    \/ /\ conn = "open"
       /\ NextRowid(entries) <= MaxId
       /\ entries' = InsertRow(entries, ts, text, tags)
       /\ last' = [op |-> "save", arg |-> <<text, tags, ts>>, raised |-> "none",
                   ret |-> NextRowid(entries)]
       /\ before' = entries
       /\ UNCHANGED <<conn, everClosed>>

get_entries(limit, offset) ==
    \/ Closed("list", <<limit, offset>>)
    \/ /\ conn = "open"
       /\ \E s \in GetEntriesIds(entries, limit, offset) :
            last' = [op |-> "list", arg |-> <<limit, offset>>, raised |-> "none",
                     ret |-> Dicts(entries, s)]
       /\ before' = entries
       /\ UNCHANGED <<conn, entries, everClosed>>

search_entries(term, type) ==
    \/ Closed("search", <<term, type>>)
    \/ /\ conn = "open"
       /\ \E s \in OrderByTimestampDesc(entries, Matching(entries, term, type)) :
            last' = [op |-> "search", arg |-> <<term, type>>, raised |-> "none",
                     ret |-> Dicts(entries, s)]
       /\ before' = entries
       /\ UNCHANGED <<conn, entries, everClosed>>

update_entry(id, text, tags) ==
    \/ Closed("update", <<id, text, tags>>)
    \/ /\ conn = "open"
       /\ entries' = UpdateRow(entries, id, text, tags)
       /\ last' = [op |-> "update", arg |-> <<id, text, tags>>, raised |-> "none",
                   ret |-> <<>>]
       /\ before' = entries
       /\ UNCHANGED <<conn, everClosed>>

\* A remove_entry that works on a connection it never finds closed.
remove_entry_unchecked(id) ==
    /\ entries' = DeleteRow(entries, id)
    /\ last' = [op |-> "remove", arg |-> <<id>>, raised |-> "none", ret |-> <<>>]
    /\ before' = entries
    /\ UNCHANGED <<conn, everClosed>>

remove_entry(id) ==
    \/ Closed("remove", <<id>>)
    \/ /\ conn = "open"
       /\ entries' = DeleteRow(entries, id)
       /\ last' = [op |-> "remove", arg |-> <<id>>, raised |-> "none", ret |-> <<>>]
       /\ before' = entries
       /\ UNCHANGED <<conn, everClosed>>

\* sqlite3's Connection.close() on a closed connection does nothing.
close ==
    /\ conn' = "closed"
    /\ everClosed' = TRUE
    /\ last' = [op |-> "close", arg |-> <<>>, raised |-> "none", ret |-> <<>>]
    /\ before' = entries
    /\ UNCHANGED entries

SaveStep == \E text \in Texts, tags \in TagLists, ts \in Timestamps : save_entry(text, tags, ts)
ListStep == \E limit \in Limits, offset \in Offsets : get_entries(limit, offset)
SearchStep == \E term \in Terms, type \in SearchTypes : search_entries(term, type)
UpdateStep == \E id \in Ids, text \in Texts, tags \in TagLists : update_entry(id, text, tags)
RemoveStep == \E id \in Ids : remove_entry(id)

\* JournalDatabase.__init__ on a fresh file: connected, the table created empty.
InitStore ==
    /\ conn = "open"
    /\ entries = << >>
    /\ last = [op |-> "init", arg |-> <<>>, raised |-> "none", ret |-> <<>>]
    /\ before = << >>
    /\ everClosed = FALSE
    /\ maxSaved = 0
    /\ prevMaxSaved = 0
    /\ removed = {}

\* No call of record_audio under way.
NoCallOfRecord == [flag |-> FALSE, chunks |-> <<>>]

NotCancelled == [set |-> FALSE, reads |-> 0, audio |-> <<>>, inRead |-> FALSE]

\* What is kept of it once record_audio has returned and its result is taken:
\* whether the recording was cancelled.
Returned(c) == [set |-> c.set, reads |-> 0, audio |-> <<>>, inRead |-> FALSE]

\* The program at its menu, no flow begun: the configuration file has the
\* defaults the program writes (lines 38-45) but for auto_tag, settings are
\* read from it and main_menu has loaded settings['model']; auto_tag as the configuration file has it.
InitFlow(auto) ==
    /\ settings = [language |-> "English", model |-> "small", duration |-> 60,
                   auto_tag |-> auto]
    /\ config = [language |-> "English", model |-> "small", duration |-> <<"6", "0">>,
                 auto_tag |-> IF auto THEN "True" ELSE "False"]
    /\ transcription_tool = "small"
    /\ resident = <<"small">>
    /\ new_model = ""
    /\ chg = [selected |-> "", held |-> "", loads |-> 0]
    /\ pc = "menu"
    /\ stop_recording = FALSE
    /\ sigint = "SIG_DFL"
    /\ reads = 0
    /\ recorded_audio = <<>>
    /\ manual_tags = <<>>
    /\ tempFiles = {}
    /\ temp_filename = 0
    /\ verdict = "none"
    /\ asr = "none"
    /\ report = <<"none", "">>
    /\ entriesAtStart = << >>
    /\ cancel = NotCancelled
    /\ call = NoCallOfRecord
    /\ checkedAudio = <<>>
    /\ flow = [kind |-> "none", text |-> <<>>, line |-> <<>>, extracted |-> FALSE]

\* The store alone, under the configuration the program writes when it has none.
NoCall == [text |-> <<>>, num_keywords |-> 0, results |-> <<>>]

NoTx == [op |-> "none", arg |-> <<>>, pre |-> << >>]
NoObs == [kind |-> "none", arg |-> <<>>, ret |-> <<>>, tx |-> NoTx]

\* The database file of a fresh store, nothing executed, nothing read.
InitTx ==
    /\ dbfile = << >>
    /\ tx = NoTx
    /\ obs = NoObs

Init == InitStore /\ InitFlow(TRUE) /\ kw = NoCall /\ InitTx

\* The history of the ids the store has returned and deleted.
History ==
    /\ prevMaxSaved' = maxSaved
    /\ maxSaved' = IF last'.op = "save" /\ last'.raised = "none" /\ last'.ret > maxSaved
                   THEN last'.ret ELSE maxSaved
    /\ removed' = removed \cup (DOMAIN entries \ DOMAIN entries')

Next ==
    \/ SaveStep /\ UNCHANGED <<histVars, flowVars, restVars>>
    \/ ListStep /\ UNCHANGED <<histVars, flowVars, restVars>>
    \/ SearchStep /\ UNCHANGED <<histVars, flowVars, restVars>>
    \/ UpdateStep /\ UNCHANGED <<histVars, flowVars, restVars>>
    \/ RemoveStep /\ UNCHANGED <<histVars, flowVars, restVars>>
    \/ close /\ UNCHANGED <<histVars, flowVars, restVars>>

Spec == Init /\ [][Next]_vars

\* The same store, with its history kept.
NextHist ==
    \/ SaveStep /\ History /\ UNCHANGED <<flowVars, restVars>>
    \/ ListStep /\ History /\ UNCHANGED <<flowVars, restVars>>
    \/ SearchStep /\ History /\ UNCHANGED <<flowVars, restVars>>
    \/ UpdateStep /\ History /\ UNCHANGED <<flowVars, restVars>>
    \/ RemoveStep /\ History /\ UNCHANGED <<flowVars, restVars>>
    \/ close /\ History /\ UNCHANGED <<flowVars, restVars>>

SpecHist == Init /\ [][NextHist]_vars

(***************************************************************************)
(* The pieces of the pipeline: is_silent, the tag line, extract_keywords.  *)
(***************************************************************************)
Abs(x) == IF x < 0 THEN -x ELSE x

\* np.max(np.abs(audio_array)) < threshold; np.max of an empty array raises
\* ValueError (a reduction with no identity).
is_silent(audio_array) ==
    IF audio_array = <<>>
    THEN [raised |-> "ValueError", value |-> FALSE]
    ELSE [raised |-> "none",
          value |-> Max({ Abs(audio_array[i]) : i \in 1..Len(audio_array) }) < Threshold]

\* Whether seq begins with pre.
IsPrefix(pre, seq) == Len(pre) <= Len(seq) /\ SubSeq(seq, 1, Len(pre)) = pre

\* str.split(sep) for a separator of one or more characters.
RECURSIVE SplitOnFrom(_, _, _)
SplitOnFrom(str, sep, cur) ==
    IF str = <<>> THEN <<cur>>
    ELSE IF IsPrefix(sep, str)
         THEN <<cur>> \o SplitOnFrom(SubSeq(str, Len(sep) + 1, Len(str)), sep, <<>>)
         ELSE SplitOnFrom(Tail(str), sep, Append(cur, Head(str)))

SplitOn(str, sep) == SplitOnFrom(str, sep, <<>>)

\* sep.join(parts)
RECURSIVE JoinWith(_, _)
JoinWith(parts, sep) ==
    IF parts = <<>> THEN <<>>
    ELSE IF Len(parts) = 1 THEN parts[1]
    ELSE parts[1] \o sep \o JoinWith(Tail(parts), sep)

\* str.split(',')
RECURSIVE SplitFrom(_, _, _)
SplitFrom(str, cur, acc) ==
    IF str = <<>> THEN Append(acc, cur)
    ELSE IF Head(str) = ","
         THEN SplitFrom(Tail(str), <<>>, Append(acc, cur))
         ELSE SplitFrom(Tail(str), Append(cur, Head(str)), acc)

Split(str) == SplitFrom(str, <<>>, <<>>)

\* str.strip(): blanks, tabs and line ends are taken off both ends.
IsSpace(c) == c \in {" ", "\t", "\n", "\r"}

RECURSIVE LStrip(_)
LStrip(str) == IF str # <<>> /\ IsSpace(Head(str)) THEN LStrip(Tail(str)) ELSE str

RECURSIVE RStrip(_)
RStrip(str) ==
    IF str # <<>> /\ IsSpace(str[Len(str)]) THEN RStrip(SubSeq(str, 1, Len(str) - 1)) ELSE str

Strip(str) == RStrip(LStrip(str))

\* str.lower()
Lower(str) == [i \in 1..Len(str) |-> ToLower(str[i])]

IsAlnumChar(c) ==
    \/ \E i \in 1..Len(LowerCase) : c \in {LowerCase[i], UpperCase[i]}
    \/ c \in {"0", "1", "2", "3", "4", "5", "6", "7", "8", "9"}

\* str.isalnum(): not empty, every character a letter or a digit.
IsAlnum(str) == str # <<>> /\ \A i \in 1..Len(str) : IsAlnumChar(str[i])

\* word_tokenize on text of letters, digits, blanks and punctuation: the runs
\* of letters and digits, and each punctuation character as a token of its own.
RECURSIVE TokenizeFrom(_, _, _)
TokenizeFrom(str, cur, acc) ==
    LET flushed == IF cur = <<>> THEN acc ELSE Append(acc, cur)
    IN  IF str = <<>> THEN flushed
        ELSE IF IsAlnumChar(Head(str))
             THEN TokenizeFrom(Tail(str), Append(cur, Head(str)), acc)
             ELSE IF IsSpace(Head(str))
                  THEN TokenizeFrom(Tail(str), <<>>, flushed)
                  ELSE TokenizeFrom(Tail(str), <<>>, Append(flushed, <<Head(str)>>))

word_tokenize(str) == TokenizeFrom(str, <<>>, <<>>)

\* stopwords.words('english'), the words of it the model's texts can hold.
StopWords == { <<"a">>, <<"o">>, <<"o", "n">>, <<"b", "e">> }

Count(seq, x) == Cardinality({ i \in 1..Len(seq) : seq[i] = x })

\* The distinct elements of seq, in the order of their first occurrence
\* (the order a Counter keeps its keys in).
RECURSIVE Uniq(_)
Uniq(seq) ==
    IF seq = <<>> THEN <<>>
    ELSE LET init == Uniq(SubSeq(seq, 1, Len(seq) - 1))
             x == seq[Len(seq)]
         IN  IF \E i \in 1..Len(init) : init[i] = x THEN init ELSE Append(init, x)

\* Counter.most_common(k): the keys by descending count, keys of equal count
\* in the order the Counter holds them, cut to k.
RECURSIVE MostCommonOf(_, _, _)
MostCommonOf(keys, seq, k) ==
    IF k = 0 \/ keys = <<>> THEN <<>>
    ELSE LET top == Max({ Count(seq, keys[i]) : i \in 1..Len(keys) })
             j == CHOOSE i \in 1..Len(keys) :
                      /\ Count(seq, keys[i]) = top
                      /\ \A h \in 1..(i - 1) : Count(seq, keys[h]) # top
         IN  <<keys[j]>> \o
             MostCommonOf(SubSeq(keys, 1, j - 1) \o SubSeq(keys, j + 1, Len(keys)), seq, k - 1)

NumKeywords == 5

\* An extract_keywords that counts every token.
extract_keywords_unfiltered(text, num_keywords) ==
    LET word_tokens == word_tokenize(Lower(text))
    IN  MostCommonOf(Uniq(word_tokens), word_tokens, num_keywords)

extract_keywords(text, num_keywords) ==
    LET word_tokens == word_tokenize(Lower(text))
        filtered_tokens == SelectSeq(word_tokens, LAMBDA w : w \notin StopWords /\ IsAlnum(w))
    IN  MostCommonOf(Uniq(filtered_tokens), filtered_tokens, num_keywords)

Range(seq) == { seq[i] : i \in 1..Len(seq) }

\* [tag.strip() for tag in manual_tags.split(',')]
ManualTags(line) == LET parts == Split(line) IN [i \in 1..Len(parts) |-> Strip(parts[i])]

\* A merge that leaves out list(set(tags)).
MergedTagsNoSet(text, line, auto) ==
    LET auto_tags == IF auto THEN extract_keywords(text, NumKeywords) ELSE <<>>
        tags == IF line # <<>> THEN auto_tags \o ManualTags(line) ELSE auto_tags
    IN  { tags }

\* The lists list(set(tags)) may be: the distinct tags, in any order.
MergedTags(text, line, auto) ==
    LET auto_tags == IF auto THEN extract_keywords(text, NumKeywords) ELSE <<>>
        tags == IF line # <<>> THEN auto_tags \o ManualTags(line) ELSE auto_tags
    IN  { s \in [1..Cardinality(Range(tags)) -> Range(tags)] : IsInjective(s) }

(***************************************************************************)
(* record_new_entry, step by step.                                         *)
(***************************************************************************)
CanSave == NextRowid(entries) <= MaxId

\* A record_audio that leaves the flag as the last recording left it.
record_new_entry_no_clear(line) ==
    /\ pc = "menu"
    /\ conn = "open"
    /\ CanSave
    /\ manual_tags' = line
    /\ reads' = 0
    /\ recorded_audio' = <<>>
    /\ temp_filename' = 0
    /\ verdict' = "none"
    /\ asr' = "none"
    /\ report' = <<"none", "">>
    /\ entriesAtStart' = entries
    /\ cancel' = NotCancelled
    /\ call' = [flag |-> stop_recording, chunks |-> <<>>]
    /\ checkedAudio' = <<>>
    /\ flow' = [kind |-> "audio", text |-> <<>>, line |-> line, extracted |-> FALSE]
    /\ \/ pc' = "recording" /\ sigint' = "signal_handler"
       \/ pc' = "crashed" /\ sigint' = "SIG_DFL"
    /\ UNCHANGED <<settings, stop_recording, tempFiles, storeVars, histVars, restVars>>

\* record_new_entry up to the read loop of record_audio: the tag line is
\* read, the flag cleared, the handler installed and the stream opened
\* (sd.InputStream raising leaves through `finally` and out of the program).
record_new_entry(line) ==
    /\ pc = "menu"
    /\ conn = "open"
    /\ CanSave
    /\ manual_tags' = line
    /\ stop_recording' = FALSE
    /\ reads' = 0
    /\ recorded_audio' = <<>>
    /\ temp_filename' = 0
    /\ verdict' = "none"
    /\ asr' = "none"
    /\ report' = <<"none", "">>
    /\ entriesAtStart' = entries
    /\ cancel' = NotCancelled
    /\ call' = [flag |-> stop_recording, chunks |-> <<>>]
    /\ checkedAudio' = <<>>
    /\ flow' = [kind |-> "audio", text |-> <<>>, line |-> line, extracted |-> FALSE]
    /\ \/ pc' = "recording" /\ sigint' = "signal_handler"
       \/ pc' = "crashed" /\ sigint' = "SIG_DFL"
    /\ UNCHANGED <<settings, tempFiles, storeVars, histVars, restVars>>

\* SIGINT while the handler is installed: at the poll of the loop, or while
\* stream.read is under way.
signal_handler ==
    /\ sigint = "signal_handler"
    /\ stop_recording' = TRUE
    /\ cancel' = IF cancel.set THEN cancel
                 ELSE [set |-> TRUE, reads |-> reads, audio |-> recorded_audio,
                       inRead |-> pc = "reading"]
    /\ UNCHANGED <<settings, pc, sigint, reads, recorded_audio, manual_tags, tempFiles,
                   temp_filename, verdict, asr, report, entriesAtStart, call,
                   checkedAudio, flow,
                   storeVars, histVars, restVars>>

\* A loop head that never looks at the flag.
record_audio_step_no_poll ==
    /\ pc = "recording"
    /\ IF reads = NumReads
       THEN pc' = "recorded" /\ sigint' = "SIG_DFL"
       ELSE pc' = "reading" /\ UNCHANGED sigint
    /\ UNCHANGED <<settings, stop_recording, reads, recorded_audio, manual_tags, tempFiles,
                   temp_filename, verdict, asr, report, entriesAtStart, cancel, call,
                   checkedAudio, flow,
                   storeVars, histVars, restVars>>

\* The head of the read loop: when the flag is set or all reads are done the
\* loop ends and record_audio returns (`finally` restores SIG_DFL); otherwise
\* the next stream.read begins.
record_audio_step ==
    /\ pc = "recording"
    /\ IF stop_recording \/ reads = NumReads
       THEN pc' = "recorded" /\ sigint' = "SIG_DFL"
       ELSE pc' = "reading" /\ UNCHANGED sigint
    /\ UNCHANGED <<settings, stop_recording, reads, recorded_audio, manual_tags, tempFiles,
                   temp_filename, verdict, asr, report, entriesAtStart, cancel, call,
                   checkedAudio, flow,
                   storeVars, histVars, restVars>>

\* stream.read(1) returns: the chunk is kept unless the read overflowed.
stream_read ==
    /\ pc = "reading"
    /\ \E audio_chunk \in Samples, overflowed \in BOOLEAN :
         /\ recorded_audio' = IF overflowed THEN recorded_audio
                              ELSE Append(recorded_audio, audio_chunk)
         /\ call' = [call EXCEPT !.chunks =
                         Append(@, [audio_chunk |-> audio_chunk,
                                    overflowed |-> overflowed])]
    /\ reads' = reads + 1
    /\ pc' = "recording"
    /\ UNCHANGED <<settings, stop_recording, sigint, manual_tags, tempFiles, temp_filename,
                   verdict, asr, report, entriesAtStart, cancel, checkedAudio,
                   flow,
                   storeVars, histVars, restVars>>

\* A name no existing file has (NamedTemporaryFile).
FreshName == CHOOSE n \in 1..(Cardinality(tempFiles) + 1) : n \notin tempFiles

\* A silence check that reports silence and carries on all the same.
check_silence_no_else ==
    /\ pc = "recorded"
    /\ checkedAudio' = recorded_audio
    /\ LET r == is_silent(recorded_audio)
       IN  IF r.raised # "none"
           THEN /\ verdict' = r.raised
                /\ pc' = "crashed"
                /\ UNCHANGED <<report, tempFiles, temp_filename>>
           ELSE /\ verdict' = IF r.value THEN "silent" ELSE "speech"
                /\ report' = IF r.value THEN <<"silent", "">> ELSE report
                /\ temp_filename' = FreshName
                /\ tempFiles' = tempFiles \cup {FreshName}
                /\ pc' = "encoding"
    /\ cancel' = Returned(cancel)
    /\ call' = NoCallOfRecord
    /\ UNCHANGED <<settings, stop_recording, sigint, reads, recorded_audio, manual_tags,
                   asr, entriesAtStart, flow, storeVars, histVars, restVars>>

\* `if is_silent(audio)`: silence is reported and the flow is over; otherwise
\* the temporary file is created. An exception of is_silent leaves the program.
check_silence ==
    /\ pc = "recorded"
    /\ checkedAudio' = recorded_audio
    /\ LET r == is_silent(recorded_audio)
       IN  IF r.raised # "none"
           THEN /\ verdict' = r.raised
                /\ pc' = "crashed"
                /\ UNCHANGED <<report, tempFiles, temp_filename, recorded_audio, manual_tags>>
           ELSE IF r.value
           THEN /\ verdict' = "silent"
                /\ report' = <<"silent", "">>
                /\ pc' = "menu"
                /\ recorded_audio' = <<>>
                /\ manual_tags' = <<>>
                /\ UNCHANGED <<tempFiles, temp_filename>>
           ELSE /\ verdict' = "speech"
                /\ temp_filename' = FreshName
                /\ tempFiles' = tempFiles \cup {FreshName}
                /\ pc' = "encoding"
                /\ UNCHANGED <<report, recorded_audio, manual_tags>>
    /\ cancel' = Returned(cancel)
    /\ call' = NoCallOfRecord
    /\ UNCHANGED <<settings, stop_recording, sigint, reads, asr, entriesAtStart, flow,
                   storeVars, histVars, restVars>>

\* wavfile.write inside the `with`, before the `try`: when it raises, the
\* exception leaves record_new_entry and the program, the file stays.
write_wav ==
    /\ pc = "encoding"
    /\ pc' \in {"transcribing", "crashed"}
    /\ UNCHANGED <<settings, stop_recording, sigint, reads, recorded_audio, manual_tags,
                   tempFiles, temp_filename, verdict, asr, report, entriesAtStart,
                   cancel, call, checkedAudio, flow,
                   storeVars, histVars, restVars>>

\* A try block whose cleanup runs on the success path only.
try_transcribe_no_finally ==
    /\ pc = "transcribing"
    /\ pc' = "menu"
    /\ \/ \E e \in AsrErrors :
            /\ asr' = e
            /\ report' = <<"error", e>>
            /\ UNCHANGED <<storeVars, tempFiles>>
       \/ \E text \in Texts, ts \in Timestamps :
          \E tags \in MergedTags(text, manual_tags, settings.auto_tag) :
            /\ asr' = "ok"
            /\ save_entry(text, tags, ts)
            /\ report' = <<"saved", "">>
            /\ tempFiles' = tempFiles \ {temp_filename}
    /\ recorded_audio' = <<>>
    /\ manual_tags' = <<>>
    /\ UNCHANGED <<settings, stop_recording, sigint, reads, temp_filename, verdict,
                   entriesAtStart, cancel, call, checkedAudio, flow, histVars, restVars>>

\* The try block: transcribe, merge the tags, save; `except Exception` prints
\* the error; `finally` unlinks the temporary file.
try_transcribe ==
    /\ pc = "transcribing"
    /\ pc' = "menu"
    /\ tempFiles' = tempFiles \ {temp_filename}
    /\ \/ \E e \in AsrErrors :
            /\ asr' = e
            /\ report' = <<"error", e>>
            /\ UNCHANGED storeVars
       \/ \E text \in Texts, ts \in Timestamps :
          \E tags \in MergedTags(text, manual_tags, settings.auto_tag) :
            /\ asr' = "ok"
            /\ \/ /\ save_entry(text, tags, ts)
                  /\ report' = <<"saved", "">>
               \/ /\ last' = [op |-> "save", arg |-> <<>>,
                              raised |-> "OperationalError", ret |-> <<>>]
                  /\ report' = <<"error", "OperationalError">>
                  /\ before' = entries
                  /\ UNCHANGED <<conn, entries, everClosed>>
    /\ recorded_audio' = <<>>
    /\ manual_tags' = <<>>
    /\ UNCHANGED <<settings, stop_recording, sigint, reads, temp_filename, verdict,
                   entriesAtStart, cancel, call, checkedAudio, flow, histVars, restVars>>

RecordNewEntryStep == \E line \in ManualTagInputs : record_new_entry(line)

(***************************************************************************)
(* add_text_entry and the edit of list_entries: each runs from the menu    *)
(* back to the menu with nothing else of the program in between.           *)
(***************************************************************************)
\* What the user types at the text prompt before the two empty lines that
\* end the input, and at "Enter new text" / "Enter new tags" of the edit.
TextEntryInputs ==
    { <<>>,
      << <<" ", " ">> >>,
      << <<>>, <<"O", "k">> >>,
      << <<"a", " ", "b", "u", "g", " ", "b", "u", "g">> >> }
EditTextInputs == { <<>>, <<"O", "k">> }
EditTagInputs == ManualTagInputs

\* What these flows leave alone: the globals and the files of the program.
\* The history of the latest flow starts afresh, as in record_new_entry.
globalVars == <<settings, pc, stop_recording, sigint, recorded_audio, manual_tags, tempFiles>>

NoAudio ==
    /\ reads' = 0
    /\ temp_filename' = 0
    /\ verdict' = "none"
    /\ asr' = "none"
    /\ cancel' = NotCancelled
    /\ call' = NoCallOfRecord
    /\ checkedAudio' = <<>>

\* An add_text_entry without the `if not text: return`.
add_text_entry_no_guard(typed, manual, ts) ==
    /\ pc = "menu"
    /\ conn = "open"
    /\ CanSave
    /\ entriesAtStart' = entries
    /\ LET lines == Append(typed, <<>>)
           text == Strip(JoinWith(lines, <<"\n">>))
       IN  /\ report' = <<"saved", "">>
           /\ flow' = [kind |-> "text", text |-> JoinWith(typed, <<"\n">>),
                       line |-> manual, extracted |-> settings.auto_tag]
           /\ \E tags \in MergedTags(text, manual, settings.auto_tag) :
                save_entry(text, tags, ts)
    /\ NoAudio
    /\ UNCHANGED <<globalVars, histVars, restVars>>

\* add_text_entry: the lines typed (the loop appends the first of the two
\* closing empty lines) are joined and stripped; an empty text returns
\* before the tag prompt; otherwise the tags are merged and the entry saved.
add_text_entry(typed, manual, ts) ==
    /\ pc = "menu"
    /\ conn = "open"
    /\ CanSave
    /\ entriesAtStart' = entries
    /\ LET lines == Append(typed, <<>>)
           text == Strip(JoinWith(lines, <<"\n">>))
       IN  IF text = <<>>
           THEN /\ report' = <<"rejected", "">>
                /\ flow' = [kind |-> "text", text |-> JoinWith(typed, <<"\n">>),
                            line |-> <<>>, extracted |-> FALSE]
                /\ UNCHANGED storeVars
           ELSE /\ report' = <<"saved", "">>
                /\ flow' = [kind |-> "text", text |-> JoinWith(typed, <<"\n">>),
                            line |-> manual, extracted |-> settings.auto_tag]
                /\ \E tags \in MergedTags(text, manual, settings.auto_tag) :
                     save_entry(text, tags, ts)
    /\ NoAudio
    /\ UNCHANGED <<globalVars, histVars, restVars>>

AddTextEntryStep ==
    \E typed \in TextEntryInputs, manual \in ManualTagInputs, ts \in Timestamps :
        add_text_entry(typed, manual, ts)

\* list_entries, choice 'e', confirmed, then 'q': the entry_num-th entry of
\* the list is updated with the text and the tags typed, an empty input
\* keeping the current value. (The list read again after the update is the
\* view's local copy, dropped on return.)
list_entries_edit(entry_num, text_in, tags_in) ==
    /\ pc = "menu"
    /\ conn = "open"
    /\ DOMAIN entries # {}
    /\ \E s \in GetEntriesIds(entries, <<>>, 0) :
         /\ entry_num \in 1..Len(s)
         /\ LET entry == RowDict(entries, s[entry_num])
                new_text == IF text_in # <<>> THEN text_in ELSE entry.text
                new_tags == IF tags_in # <<>> THEN tags_in
                            ELSE JoinWith(entry.tags, <<",", " ">>)
            IN  update_entry(entry.id, new_text, SplitOn(new_tags, <<",", " ">>))
    /\ entriesAtStart' = entries
    /\ report' = <<"updated", "">>
    /\ flow' = [kind |-> "edit", text |-> text_in, line |-> tags_in, extracted |-> FALSE]
    /\ NoAudio
    /\ UNCHANGED <<globalVars, histVars, restVars>>

EditEntryStep ==
    \E entry_num \in Ids, text_in \in EditTextInputs, tags_in \in EditTagInputs :
        list_entries_edit(entry_num, text_in, tags_in)

(***************************************************************************)
(* save_entry, update_entry and remove_entry statement by statement, with  *)
(* a reader on a second connection to the same file. `entries` is the     *)
(* table as the writing connection has it, `dbfile` the table committed,   *)
(* tx.pre the table the statement under way found.                         *)
(***************************************************************************)
\* An UPDATE that sets the text only, committed at once (the tags left to a
\* second statement).
execute_update_text_first(id, text, tags) ==
    /\ conn = "open"
    /\ tx = NoTx
    /\ entries' = [i \in DOMAIN entries |->
                      IF i = id THEN [entries[i] EXCEPT !.text = text] ELSE entries[i]]
    /\ dbfile' = entries'
    /\ tx' = [op |-> "update", arg |-> <<id, text, tags>>, pre |-> entries]
    /\ obs' = NoObs
    /\ UNCHANGED <<conn, last, before, everClosed, histVars, flowVars, toolVars, kw>>

\* cursor.execute('INSERT ...') of save_entry: the row is in the connection's
\* open transaction, not yet in the file.
execute_insert(text, tags, ts) ==
    /\ conn = "open"
    /\ tx = NoTx
    /\ NextRowid(entries) <= MaxId
    /\ entries' = InsertRow(entries, ts, text, tags)
    /\ tx' = [op |-> "save", arg |-> <<text, tags, ts>>, pre |-> entries]
    /\ obs' = NoObs
    /\ UNCHANGED <<conn, last, before, everClosed, dbfile, histVars, flowVars, toolVars, kw>>

\* cursor.execute('UPDATE ...') of update_entry.
execute_update(id, text, tags) ==
    /\ conn = "open"
    /\ tx = NoTx
    /\ entries' = UpdateRow(entries, id, text, tags)
    /\ tx' = [op |-> "update", arg |-> <<id, text, tags>>, pre |-> entries]
    /\ obs' = NoObs
    /\ UNCHANGED <<conn, last, before, everClosed, dbfile, histVars, flowVars, toolVars, kw>>

\* cursor.execute('DELETE ...') of remove_entry.
execute_delete(id) ==
    /\ conn = "open"
    /\ tx = NoTx
    /\ entries' = DeleteRow(entries, id)
    /\ tx' = [op |-> "remove", arg |-> <<id>>, pre |-> entries]
    /\ obs' = NoObs
    /\ UNCHANGED <<conn, last, before, everClosed, dbfile, histVars, flowVars, toolVars, kw>>

\* self.conn.commit(): the transaction's change reaches the file, whole.
commit ==
    /\ tx # NoTx
    /\ dbfile' = entries
    /\ tx' = NoTx
    /\ obs' = NoObs
    /\ UNCHANGED <<storeVars, histVars, flowVars, toolVars, kw>>

\* get_entries() on a second connection: it reads what is committed.
reader_get_entries ==
    /\ \E s \in GetEntriesIds(dbfile, <<>>, 0) :
         obs' = [kind |-> "list", arg |-> <<>>, ret |-> Dicts(dbfile, s), tx |-> tx]
    /\ UNCHANGED <<storeVars, histVars, flowVars, toolVars, kw, dbfile, tx>>

\* search_entries(term, type) on a second connection.
reader_search_entries(term, type) ==
    /\ \E s \in OrderByTimestampDesc(dbfile, Matching(dbfile, term, type)) :
         obs' = [kind |-> "search", arg |-> <<term, type>>, ret |-> Dicts(dbfile, s),
                 tx |-> tx]
    /\ UNCHANGED <<storeVars, histVars, flowVars, toolVars, kw, dbfile, tx>>

ExecuteInsertStep ==
    \E text \in Texts, tags \in TagLists, ts \in Timestamps : execute_insert(text, tags, ts)
ExecuteUpdateStep ==
    \E id \in Ids, text \in Texts, tags \in TagLists : execute_update(id, text, tags)
ExecuteDeleteStep == \E id \in Ids : execute_delete(id)
ReaderSearchStep == \E term \in Terms, type \in SearchTypes : reader_search_entries(term, type)

NextTx ==
    \/ ExecuteInsertStep
    \/ ExecuteUpdateStep
    \/ ExecuteDeleteStep
    \/ commit
    \/ reader_get_entries
    \/ ReaderSearchStep

SpecTx == Init /\ [][NextTx]_vars

(***************************************************************************)
(* extract_keywords on its own: called twice on a text and a num_keywords.  *)
(***************************************************************************)
\* The words the texts are made of: a word, a word in capitals, a stopword
\* and a punctuation mark; and the values of num_keywords.
KeywordWords == { <<"b", "u", "g">>, <<"Q", "A">>, <<"a">>, <<"!">> }
KeywordCounts == { 0, 1, NumKeywords }

WordLists == UNION { [1..n -> KeywordWords] : n \in 0..MaxWords }
KeywordTexts == { JoinWith(ws, <<" ">>) : ws \in WordLists }

InitKeywords ==
    /\ InitStore
    /\ InitFlow(TRUE)
    /\ InitTx
    /\ \E text \in KeywordTexts, k \in KeywordCounts :
         kw = [text |-> text, num_keywords |-> k, results |-> <<>>]

\* One call of extract_keywords(text, num_keywords).
call_extract_keywords ==
    /\ Len(kw.results) < 2
    /\ kw' = [kw EXCEPT !.results = Append(@, extract_keywords(kw.text, kw.num_keywords))]
    /\ UNCHANGED <<storeVars, histVars, flowVars, toolVars, txVars>>

SpecKeywords == InitKeywords /\ [][call_extract_keywords]_vars

(***************************************************************************)
(* change_settings and the global TranscriptionTool.                       *)
(***************************************************************************)
LANGUAGES == <<"English", "Albanian", "French", "German", "Italian", "Spanish">>
MODELS == <<"tiny", "base", "small", "medium", "large">>

\* What the user types at the four prompts of change_settings.
LangChoices == { <<>>, <<"2">> }
ModelChoices == { <<>>, <<"1">>, <<"3">>, <<"0">>, <<"x">> }
DurationInputs == { <<>>, <<"3", "0">>, <<"a">> }
AutoTagInputs == { <<>>, <<"Y">>, <<"n">> }

DecimalDigits == <<"0", "1", "2", "3", "4", "5", "6", "7", "8", "9">>
IsDigit(c) == \E i \in 1..Len(DecimalDigits) : DecimalDigits[i] = c
DigitValue(c) == (CHOOSE i \in 1..Len(DecimalDigits) : DecimalDigits[i] = c) - 1

RECURSIVE DigitsValue(_)
DigitsValue(ds) ==
    IF ds = <<>> THEN 0
    ELSE 10 * DigitsValue(SubSeq(ds, 1, Len(ds) - 1)) + DigitValue(ds[Len(ds)])

\* int(str): surrounding whitespace and one sign are accepted, then digits
\* only; anything else raises ValueError.
int(str) ==
    LET t == Strip(str)
        signed == t # <<>> /\ Head(t) \in {"+", "-"}
        ds == IF signed THEN Tail(t) ELSE t
    IN  IF ds # <<>> /\ \A i \in 1..Len(ds) : IsDigit(ds[i])
        THEN [raised |-> "none",
              value |-> IF signed /\ Head(t) = "-" THEN 0 - DigitsValue(ds) ELSE DigitsValue(ds)]
        ELSE [raised |-> "ValueError", value |-> 0]

\* LIST[int(choice) - 1]: a negative index counts from the end of the list,
\* an index outside it raises IndexError.
Choice(list, choice) ==
    LET n == int(choice)
        k == n.value - 1
    IN  IF n.raised # "none" THEN [raised |-> n.raised, value |-> ""]
        ELSE IF k >= 0 /\ k < Len(list) THEN [raised |-> "none", value |-> list[k + 1]]
        ELSE IF k < 0 /\ k >= 0 - Len(list)
             THEN [raised |-> "none", value |-> list[Len(list) + k + 1]]
        ELSE [raised |-> "IndexError", value |-> ""]

\* The instances in memory once the one the name `tool` was bound to has lost
\* its last reference (TranscriptionTool.__del__: del self.model, gc.collect()).
Release(res, tool) ==
    IF tool = "unbound" \/ \A i \in 1..Len(res) : res[i] # tool THEN res
    ELSE LET j == CHOOSE i \in 1..Len(res) :
                      res[i] = tool /\ \A h \in 1..(i - 1) : res[h] # tool
         IN  SubSeq(res, 1, j - 1) \o SubSeq(res, j + 1, Len(res))

\* get_settings(): the dict read from the parser; int() of the duration may raise.
get_settings(cfg) ==
    LET d == int(cfg.duration)
    IN  [raised |-> d.raised,
         value |-> [language |-> cfg.language, model |-> cfg.model, duration |-> d.value,
                    auto_tag |-> cfg.auto_tag = "True"]]

\* A change_settings that builds the new TranscriptionTool while the name
\* still holds the old one.
change_settings_no_del(lang_choice, model_choice) ==
    /\ pc = "menu"
    /\ LET lang == IF lang_choice = <<>> THEN [raised |-> "none", value |-> config.language]
                   ELSE Choice(LANGUAGES, lang_choice)
           cfg == IF lang.raised = "none" THEN [config EXCEPT !.language = lang.value]
                  ELSE config
           model == IF model_choice = <<>> \/ lang.raised # "none"
                    THEN [raised |-> "none", value |-> ""]
                    ELSE Choice(MODELS, model_choice)
       IN  IF lang.raised # "none" \/ model.raised # "none"
           THEN /\ pc' = "crashed"
                /\ config' = cfg
                /\ chg' = [selected |-> "", held |-> transcription_tool, loads |-> 0]
                /\ UNCHANGED <<transcription_tool, resident, new_model>>
           ELSE IF model_choice # <<>> /\ model.value # settings.model
           THEN /\ pc' = "loading"
                /\ config' = [cfg EXCEPT !.model = model.value]
                /\ new_model' = model.value
                /\ chg' = [selected |-> model.value, held |-> transcription_tool, loads |-> 0]
                /\ UNCHANGED <<transcription_tool, resident>>
           ELSE /\ pc' = "prompting"
                /\ config' = cfg
                /\ chg' = [selected |-> model.value, held |-> transcription_tool, loads |-> 0]
                /\ UNCHANGED <<transcription_tool, resident, new_model>>
    /\ UNCHANGED <<settings, stop_recording, sigint, reads, recorded_audio, manual_tags,
                   tempFiles, temp_filename, verdict, asr, report, entriesAtStart, cancel, call,
                   checkedAudio, flow, storeVars, histVars, kw, txVars>>

\* change_settings up to `del transcription_tool`: the language and the model
\* chosen go into the parser; a model other than settings['model'] unbinds
\* the global, which releases the instance it held. An input int() or the
\* list index rejects raises out of change_settings and main_menu.
change_settings(lang_choice, model_choice) ==
    /\ pc = "menu"
    /\ LET lang == IF lang_choice = <<>> THEN [raised |-> "none", value |-> config.language]
                   ELSE Choice(LANGUAGES, lang_choice)
           cfg == IF lang.raised = "none" THEN [config EXCEPT !.language = lang.value]
                  ELSE config
           model == IF model_choice = <<>> \/ lang.raised # "none"
                    THEN [raised |-> "none", value |-> ""]
                    ELSE Choice(MODELS, model_choice)
       IN  IF lang.raised # "none" \/ model.raised # "none"
           THEN /\ pc' = "crashed"
                /\ config' = cfg
                /\ chg' = [selected |-> "", held |-> transcription_tool, loads |-> 0]
                /\ UNCHANGED <<transcription_tool, resident, new_model>>
           ELSE IF model_choice # <<>> /\ model.value # settings.model
           THEN /\ pc' = "loading"
                /\ config' = [cfg EXCEPT !.model = model.value]
                /\ transcription_tool' = "unbound"
                /\ resident' = Release(resident, transcription_tool)
                /\ new_model' = model.value
                /\ chg' = [selected |-> model.value, held |-> transcription_tool, loads |-> 0]
           ELSE /\ pc' = "prompting"
                /\ config' = cfg
                /\ chg' = [selected |-> model.value, held |-> transcription_tool, loads |-> 0]
                /\ UNCHANGED <<transcription_tool, resident, new_model>>
    /\ UNCHANGED <<settings, stop_recording, sigint, reads, recorded_audio, manual_tags,
                   tempFiles, temp_filename, verdict, asr, report, entriesAtStart, cancel, call,
                   checkedAudio, flow, storeVars, histVars, kw, txVars>>

\* TranscriptionTool(new_model): whisper.load_model brings the model into
\* memory, or raises, and the exception leaves change_settings and main_menu
\* with the global unbound.
TranscriptionTool_init ==
    /\ pc = "loading"
    /\ \/ /\ pc' = "constructed"
          /\ resident' = Append(resident, new_model)
          /\ chg' = [chg EXCEPT !.loads = chg.loads + 1]
       \/ /\ pc' = "crashed"
          /\ UNCHANGED <<resident, chg>>
    /\ UNCHANGED <<config, transcription_tool, new_model, settings, stop_recording, sigint,
                   reads, recorded_audio, manual_tags, tempFiles, temp_filename, verdict,
                   asr, report, entriesAtStart, cancel, call, checkedAudio, flow, storeVars,
                   histVars, kw, txVars>>

\* The rest of change_settings: the new tool is bound to the global, the
\* duration and the auto_tag answer go into the parser, the file is written,
\* and settings are read back with get_settings(), whose int() raises on a
\* duration that is no number.
change_settings_rest(duration, auto_tag) ==
    /\ pc \in {"constructed", "prompting"}
    /\ transcription_tool' = IF pc = "constructed" THEN new_model ELSE transcription_tool
    /\ resident' = IF pc = "constructed" THEN Release(resident, transcription_tool)
                   ELSE resident
    /\ new_model' = ""
    /\ LET cfg1 == IF duration # <<>> THEN [config EXCEPT !.duration = duration] ELSE config
           cfg == IF Lower(auto_tag) \in { <<"y">>, <<"n">> }
                  THEN [cfg1 EXCEPT !.auto_tag =
                            IF Lower(auto_tag) = <<"y">> THEN "True" ELSE "False"]
                  ELSE cfg1
           read == get_settings(cfg)
       IN  /\ config' = cfg
           /\ IF read.raised = "none"
              THEN settings' = read.value /\ pc' = "menu"
              ELSE pc' = "crashed" /\ UNCHANGED settings
    /\ UNCHANGED <<chg, stop_recording, sigint, reads, recorded_audio, manual_tags,
                   tempFiles, temp_filename, verdict, asr, report, entriesAtStart, cancel, call,
                   checkedAudio, flow, storeVars, histVars, kw, txVars>>

ChangeSettingsStep ==
    \E lang_choice \in LangChoices, model_choice \in ModelChoices :
        change_settings(lang_choice, model_choice)

ChangeSettingsRestStep ==
    \E duration \in DurationInputs, auto_tag \in AutoTagInputs :
        change_settings_rest(duration, auto_tag)

\* The program at its menu, with either value of auto_tag configured.
InitPipeline ==
    InitStore /\ (\E auto \in BOOLEAN : InitFlow(auto)) /\ kw = NoCall /\ InitTx

NextPipeline ==
    \/ RecordNewEntryStep
    \/ signal_handler
    \/ record_audio_step
    \/ stream_read
    \/ check_silence
    \/ write_wav
    \/ try_transcribe

SpecPipeline == InitPipeline /\ [][NextPipeline]_vars

\* The two flows that add entries, in any sequence from the menu.
NextEntry ==
    \/ RecordNewEntryStep
    \/ signal_handler
    \/ record_audio_step
    \/ stream_read
    \/ check_silence
    \/ write_wav
    \/ try_transcribe
    \/ AddTextEntryStep

SpecEntry == InitPipeline /\ [][NextEntry]_vars

\* The three flows that write the store, in any sequence from the menu.
NextFlows ==
    \/ RecordNewEntryStep
    \/ signal_handler
    \/ record_audio_step
    \/ stream_read
    \/ check_silence
    \/ write_wav
    \/ try_transcribe
    \/ AddTextEntryStep
    \/ EditEntryStep

SpecFlows == InitPipeline /\ [][NextFlows]_vars

\* Any sequence of change_settings calls from the menu.
NextSettings ==
    \/ ChangeSettingsStep
    \/ TranscriptionTool_init
    \/ ChangeSettingsRestStep

SpecSettings == InitPipeline /\ [][NextSettings]_vars

(***************************************************************************)
(* The claims about the store.                                             *)
(***************************************************************************)

\* C1: update(id, text, tags) on an open store with an id that is not stored
\* signals EntryNotFound and leaves every stored entry unchanged.
C1_UpdateMissingSignalsNotFound ==
    (last.op = "update" /\ last.raised # "ProgrammingError" /\ last.arg[1] \notin DOMAIN before)
    => (last.raised = "EntryNotFound" /\ entries = before)

\* C2: remove(id) with an id that is not stored (a second remove of the same
\* id, or an id never stored) signals EntryNotFound and changes nothing.
C2_RemoveMissingSignalsNotFound ==
    (last.op = "remove" /\ last.raised # "ProgrammingError" /\ last.arg[1] \notin DOMAIN before)
    => (last.raised = "EntryNotFound" /\ entries = before)

\* C3: the id a save returns is strictly greater than every id an earlier
\* save returned (so no id is assigned twice, also after a removal).
C3_SavedIdsIncrease ==
    (last.op = "save" /\ last.raised = "none") => last.ret > prevMaxSaved

\* C4: a store that has been closed is closed for good, every save, list,
\* search, update or remove on it fails with the closed-store error, and none
\* changes the entries.
C4_ClosedIsFinal ==
    everClosed
    => /\ conn = "closed"
       /\ last.op \in {"save", "list", "search", "update", "remove"}
            => (last.raised = "ProgrammingError" /\ entries = before)

C4_Witness ==
    /\ conn = "closed"
    /\ entries # << >>
    /\ last.op = "remove"
    /\ last.arg[1] \in DOMAIN entries
    /\ last.raised = "ProgrammingError"

\* C5: once remove(id) has deleted an entry, no later list or search result
\* holds an entry with that id.
C5_RemovedIdNeverListed ==
    (last.op \in {"list", "search"} /\ last.raised = "none")
    => \A i \in 1..Len(last.ret) : last.ret[i].id \notin removed

\* C6: update(id, text, tags) on a stored entry sets that entry's text and
\* tags and nothing else: its timestamp, every other entry and the set of
\* stored ids stay as they were.
C6_UpdateFrame ==
    (last.op = "update" /\ last.raised = "none" /\ last.arg[1] \in DOMAIN before)
    => LET id == last.arg[1]
       IN  /\ DOMAIN entries = DOMAIN before
           /\ entries[id].timestamp = before[id].timestamp
           /\ entries[id].text = last.arg[2]
           /\ Loads(entries[id].tags) = last.arg[3]
           /\ \A j \in DOMAIN before \ {id} : entries[j] = before[j]

C6_Witness ==
    /\ last.op = "update"
    /\ last.raised = "none"
    /\ last.arg[1] \in DOMAIN before
    /\ Cardinality(DOMAIN before) = 2
    /\ before[last.arg[1]].text # last.arg[2]
    /\ Loads(before[last.arg[1]].tags) # last.arg[3]

\* What list(limit, offset) is to return of the newest-first sequence s: s
\* without its first `offset` elements, cut to `limit` elements when a limit
\* is given.
Paged(s, limit, offset) ==
    LET rest == IF offset >= Len(s) THEN <<>> ELSE SubSeq(s, offset + 1, Len(s))
    IN  IF limit = <<>> \/ Len(rest) <= limit[1] THEN rest ELSE SubSeq(rest, 1, limit[1])

\* C7: list(limit, offset) returns the entries newest first, without the
\* first `offset` of them, and at most `limit` of them; with no limit it
\* returns all that follow the first `offset`.
C7_ListPaged ==
    (last.op = "list" /\ last.raised = "none")
    => \E s \in OrderByTimestampDesc(entries, DOMAIN entries) :
           last.ret = Dicts(entries, Paged(s, last.arg[1], last.arg[2]))

(***************************************************************************)
(* The claims about record_new_entry.                                      *)
(***************************************************************************)

\* C8: when the captured buffer is classified silent (also a buffer cut short
\* by cancellation), the flow ends there: silence is reported, the
\* transcription was not invoked, the store holds what it held when the flow
\* started and no temporary audio file exists.
C8_SilentAborts ==
    verdict = "silent"
    => /\ pc = "menu"
       /\ report = <<"silent", "">>
       /\ asr = "none"
       /\ entries = entriesAtStart
       /\ tempFiles = {}

C8_Witness ==
    /\ verdict = "silent"
    /\ pc = "menu"
    /\ stop_recording
    /\ 0 < reads /\ reads < NumReads
    /\ entries # << >>

\* C9: when the transcription raises, the flow ends with the error reported
\* with its cause, the store holding what it held when the flow started, and
\* the temporary audio file deleted.
C9_AsrErrorCleanup ==
    asr \in AsrErrors
    => /\ pc = "menu"
       /\ report = <<"error", asr>>
       /\ entries = entriesAtStart
       /\ tempFiles = {}

C9_Witness ==
    /\ asr \in AsrErrors
    /\ pc = "menu"
    /\ temp_filename # 0
    /\ entries # << >>

\* C10: whenever the flow has ended, by returning to the menu or by an
\* exception that leaves it, no temporary audio file it created exists.
C10_TempFileDeleted ==
    pc \in {"menu", "crashed"} => tempFiles = {}

\* The reads a recording may still complete once SIGINT has come: the one
\* under way, if any.
ReadsAfterCancel == IF cancel.inRead THEN 1 ELSE 0

\* C11: once the flag is set during a recording, the loop ends at its next
\* poll (no read begins after it), record_audio returns a buffer that holds
\* every chunk kept before the cancellation, in order, and the flow goes on to
\* the silence check: the cancellation itself is no error.
C11_CancelStopsAtNextPoll ==
    cancel.set
    => /\ pc \in {"recording", "reading", "recorded"}
            => /\ reads <= cancel.reads + ReadsAfterCancel
               /\ IsPrefix(cancel.audio, recorded_audio)
               /\ Len(recorded_audio) <= Len(cancel.audio) + ReadsAfterCancel
       /\ pc \notin {"recording", "reading", "recorded"} => verdict # "none"

C11_Witness ==
    /\ cancel.set
    /\ pc = "recorded"
    /\ cancel.reads = 1
    /\ reads = 1
    /\ reads < NumReads
    /\ recorded_audio = cancel.audio
    /\ Len(recorded_audio) = 1

\* The largest absolute amplitude of a buffer, 0 for the empty buffer.
MaxAbs(buf) == IF buf = <<>> THEN 0 ELSE Max({ Abs(buf[i]) : i \in 1..Len(buf) })

\* C12: is_silent is true iff the largest absolute amplitude of the buffer
\* is strictly below the threshold, and true for the empty buffer.
C12_SilentIffBelowThreshold ==
    verdict # "none"
    => verdict = (IF MaxAbs(checkedAudio) < Threshold THEN "silent" ELSE "speech")

\* The tags of a stored row, as a reader gets them.
StoredTags(id) == Loads(entries[id].tags)

\* C13: the tags an audio or text flow persists are, as a set, the keywords
\* extracted from the text (only with auto_tag on) together with the manual
\* tags typed, and no string is stored twice.
C13_TagsAreUnion ==
    (flow.kind \in {"audio", "text"} /\ pc = "menu" /\ report[1] = "saved")
    => LET text == last.arg[1]
           auto_part == IF settings.auto_tag THEN Range(extract_keywords(text, NumKeywords)) ELSE {}
           manual_part == IF flow.line # <<>> THEN Range(ManualTags(flow.line)) ELSE {}
       IN  /\ last.op = "save" /\ last.raised = "none"
           /\ Range(StoredTags(last.ret)) = auto_part \cup manual_part
           /\ IsInjective(StoredTags(last.ret))

C13_Witness ==
    /\ flow.kind = "text"
    /\ pc = "menu"
    /\ report[1] = "saved"
    /\ settings.auto_tag
    /\ flow.line # <<>>
    /\ Range(StoredTags(last.ret)) = { <<"o", "k">>, <<"b", "u", "g">> }

\* A text of nothing but whitespace (the empty text included).
IsBlank(str) == \A i \in 1..Len(str) : IsSpace(str[i])

\* C18: the text flow rejects an empty or whitespace-only text: the store is
\* left as it was, no entry is created and no keywords are extracted; for any
\* other text exactly one entry is created, the stored ones untouched.
C18_BlankTextRejected ==
    flow.kind = "text"
    => IF IsBlank(flow.text)
       THEN /\ entries = entriesAtStart
            /\ ~flow.extracted
            /\ report[1] = "rejected"
       ELSE /\ Cardinality(DOMAIN entries \ DOMAIN entriesAtStart) = 1
            /\ \A i \in DOMAIN entriesAtStart : i \in DOMAIN entries /\ entries[i] = entriesAtStart[i]
            /\ report[1] = "saved"

C18_Witness ==
    /\ flow.kind = "text"
    /\ flow.text = <<" ", " ">>
    /\ report[1] = "rejected"
    /\ settings.auto_tag
    /\ DOMAIN entries = {1}

\* C19: after any sequence of the flows that write the store (audio, text,
\* edit from the list view) no stored entry's tag list holds a string twice.
C19_StoredTagsDistinct == \A id \in DOMAIN entries : IsInjective(StoredTags(id))

\* C14: at most one model instance is in memory at any time: when a change
\* selects another identifier the instance held is released before the load
\* of the new one starts, and a change that selects the identifier held
\* loads nothing.
C14_OneModelResident ==
    /\ Len(resident) <= 1
    /\ pc = "loading" => resident = <<>>
    /\ chg.selected = chg.held => chg.loads = 0

C14_Witness ==
    /\ pc = "constructed"
    /\ chg.held = "small"
    /\ chg.selected = "tiny"
    /\ chg.loads = 1
    /\ resident = <<"tiny">>

\* C20: after any sequence of change_settings calls, those that fail partway
\* included, the global transcription_tool is bound to a loaded model whose
\* identifier is settings['model'].
C20_ToolMatchesSettings ==
    pc \in {"menu", "crashed"}
    => (transcription_tool = settings.model /\ resident = <<settings.model>>)

\* Whether term occurs in str as a run of consecutive characters, letters
\* compared as the matcher compares them (without regard to ASCII case).
ContainsTerm(str, term) ==
    \E k \in 0..(Len(str) - Len(term)) :
        \A i \in 1..Len(term) : ToLower(str[k + i]) = ToLower(term[i])

\* C15: for every term, those holding % or _ included, a text search returns
\* exactly the entries whose body contains the term as a substring, a tag
\* search exactly those whose serialized tag list contains it, newest first.
C15_SearchIsSubstring ==
    (last.op = "search" /\ last.raised = "none")
    => LET term == last.arg[1]
           hits == { i \in DOMAIN entries :
                       ContainsTerm(IF last.arg[2] = "text" THEN entries[i].text
                                    ELSE entries[i].tags, term) }
       IN  \E s \in OrderByTimestampDesc(entries, hits) : last.ret = Dicts(entries, s)

\* The place of the first occurrence of x in seq.
FirstIndex(seq, x) == CHOOSE i \in 1..Len(seq) : seq[i] = x /\ \A h \in 1..(i - 1) : seq[h] # x

\* x ranks before y among the tokens toks: it is more frequent, or as
\* frequent and first seen earlier.
RanksBefore(toks, x, y) ==
    \/ Count(toks, x) > Count(toks, y)
    \/ Count(toks, x) = Count(toks, y) /\ FirstIndex(toks, x) < FirstIndex(toks, y)

\* C17: extract_keywords(text, k) returns at most k tokens, none a stopword
\* or a token that is not alphanumeric; they are the k most frequent of the
\* remaining tokens, by descending count, ties by first occurrence in the
\* text; and two calls on the same text return the same sequence.
C17_KeywordsRanked ==
    \A c \in 1..Len(kw.results) :
        LET r == kw.results[c]
            toks == word_tokenize(Lower(kw.text))
            kept == { toks[i] : i \in { j \in 1..Len(toks) :
                                          toks[j] \notin StopWords /\ IsAlnum(toks[j]) } }
        IN  /\ Len(r) <= kw.num_keywords
            /\ Len(r) = kw.num_keywords \/ Range(r) = kept
            /\ Range(r) \subseteq kept
            /\ \A i, j \in 1..Len(r) : i < j => RanksBefore(toks, r[i], r[j])
            /\ \A i \in 1..Len(r) : \A w \in kept \ Range(r) : RanksBefore(toks, r[i], w)
            /\ r = kw.results[1]

C17_Witness ==
    /\ Len(kw.results) = 2
    /\ kw.num_keywords = 1
    /\ kw.text = <<"Q", "A", " ", "b", "u", "g", " ", "b", "u", "g">>
    /\ kw.results[2] = << <<"b", "u", "g">> >>

\* The table once the operation t is complete on the table tbl.
Effect(tbl, t) ==
    IF t.op = "save" THEN InsertRow(tbl, t.arg[3], t.arg[1], t.arg[2])
    ELSE IF t.op = "update" THEN UpdateRow(tbl, t.arg[1], t.arg[2], t.arg[3])
    ELSE IF t.op = "remove" THEN DeleteRow(tbl, t.arg[1])
    ELSE tbl

\* What a list or a search returns on the table tbl, as a set of entries.
Answer(tbl, o) ==
    { RowDict(tbl, i) : i \in IF o.kind = "list" THEN DOMAIN tbl
                                ELSE Matching(tbl, o.arg[1], o.arg[2]) }

\* C16: a list or a search that runs while a save, an update or a remove is
\* under way, or after it, returns the entries of the table before the
\* operation or those of the table after the whole operation, never an
\* entry with some of its fields written and others not.
C16_WritesAtomicToReaders ==
    obs.kind # "none"
    => IF obs.tx = NoTx
       THEN Range(obs.ret) = Answer(entries, obs)
       ELSE \/ Range(obs.ret) = Answer(obs.tx.pre, obs)
            \/ Range(obs.ret) = Answer(Effect(obs.tx.pre, obs.tx), obs)

C16_Witness ==
    /\ obs.kind = "list"
    /\ obs.tx.op = "update"
    /\ tx = obs.tx
    /\ entries # dbfile
    /\ Range(obs.ret) = Answer(obs.tx.pre, obs)
    /\ Range(obs.ret) # Answer(entries, obs)

\* The chunks of the reads that did not overflow, in the order read.
KeptChunks(chunks) ==
    LET kept == SelectSeq(chunks, LAMBDA c : ~c.overflowed)
    IN  [i \in 1..Len(kept) |-> kept[i].audio_chunk]

\* C21: every call of record_audio starts with the flag cleared, whatever an
\* earlier recording left in it: while no SIGINT has reached the handler in
\* this call the flag is clear and the buffer is made of the chunks of the
\* reads that did not overflow, in order, and when such a call returns it
\* has made all its reads.
C21_RecordingStartsCleared ==
    (pc \in {"recording", "reading", "recorded"} /\ ~cancel.set)
        => /\ ~stop_recording
           /\ Len(call.chunks) = reads
           /\ recorded_audio = KeptChunks(call.chunks)
           /\ pc = "recorded" => reads = NumReads

\* A call that found the flag set by an earlier, cancelled recording has
\* returned uncancelled after all its reads, one of them overflowed and one kept.
C21_Witness ==
    /\ pc = "recorded"
    /\ call.flag
    /\ ~cancel.set
    /\ reads = NumReads
    /\ \E i \in 1..Len(call.chunks) : call.chunks[i].overflowed
    /\ recorded_audio # <<>>

====
